---- MODULE Spec2Model ----
(***************************************************************************)
(* Model of src/main.rs: component structs composed into three entities    *)
(* (Enemy, FlyingEnemy, Player), the capability traits they implement, the *)
(* generic routine move_towards, and the fixed scenario run by main.       *)
(*                                                                         *)
(* The state holds two entity slots.  A behaviour is either the run of     *)
(* main (pc walks through the four demonstrations) or a sequence of trait  *)
(* and method calls on two freshly constructed entities with arguments     *)
(* drawn from small sets (pc = "api").                                     *)
(*                                                                         *)
(* Numbers.  i32 keeps its width: I32_MIN..I32_MAX, and the one i32        *)
(* subtraction of the program (Health::take_damage) either panics (a build *)
(* with overflow checks) or wraps (a build without).  f32 is modelled as   *)
(* fixed point with Scale units per 1.0, truncating toward zero; NaN,      *)
(* infinities and f32 rounding are outside the model.  Text output         *)
(* (println!, draw) is not modelled.                                       *)
(***************************************************************************)
EXTENDS Integers, Sequences, FiniteSets, TLC

VARIABLES pc, ents, frame, steps, last

vars == <<pc, ents, frame, steps, last>>

\* ------------------------------------------------------------------ numbers

\* Longest sequence of calls explored in a pc = "api" behaviour.
MaxSteps == 3

\* Fixed-point units per 1.0 of an f32 value.
Scale == 10

Fx(whole) == whole * Scale

I32_MAX == 2147483647

I32_MIN == (-I32_MAX) - 1

\* Frames of simulate_game_loop, and the delta_time (0.1) of each update.
Frames == 3

FrameDelta == 1

Abs(a) == IF a < 0 THEN -a ELSE a

Min(a, b) == IF a <= b THEN a ELSE b

Max(a, b) == IF a >= b THEN a ELSE b

\* Integer quotient truncated toward zero.
TDiv(a, b) ==
    IF (a >= 0) = (b > 0) THEN Abs(a) \div Abs(b) ELSE -(Abs(a) \div Abs(b))

\* f32 product and quotient of two fixed-point values.
FMul(a, b) == TDiv(a * b, Scale)

FDiv(a, b) == TDiv(a * Scale, b)

RECURSIVE SqrtSearch(_, _, _)
SqrtSearch(n, lo, hi) ==
    IF lo >= hi THEN lo
    ELSE LET mid == (lo + hi + 1) \div 2
         IN  IF mid * mid <= n THEN SqrtSearch(n, mid, hi)
                               ELSE SqrtSearch(n, lo, mid - 1)

\* f32::sqrt of a fixed-point value (floor of the root).
FSqrt(a) == SqrtSearch(a * Scale, 0, Min(a * Scale, 46340))

\* i32 subtraction a - b leaves the i32 range.
sub_overflows(a, b) ==
    \/ b < 0 /\ a > I32_MAX + b
    \/ b > 0 /\ a < I32_MIN + b

\* i32 subtraction a - b modulo 2^32, computed without leaving the range.
wrapping_sub(a, b) ==
    IF b < 0 /\ a > I32_MAX + b THEN (a + I32_MIN) - (b - I32_MIN)
    ELSE IF b > 0 /\ a < I32_MIN + b THEN ((a - I32_MIN) + (I32_MAX - b)) + 1
    ELSE a - b

\* --------------------------------------------------------------- components

PositionComponent_new(x, y) == [x |-> x, y |-> y]

HealthComponent_new(max) == [current |-> max, max |-> max]

CombatComponent_new(damage) == [damage |-> damage]

FlyingComponent_new(max_altitude) == [altitude |-> 0, max_altitude |-> max_altitude]

\* Option<FlyingComponent>
None == [some |-> FALSE]

Some(c) == [some |-> TRUE, val |-> c]

\* ----------------------------------------------------------------- entities

Enemy_new(name, x, y, health, damage) ==
    [kind |-> "Enemy", name |-> name,
     position |-> PositionComponent_new(x, y),
     health |-> HealthComponent_new(health),
     combat |-> CombatComponent_new(damage)]

FlyingEnemy_new(name, x, y, health, damage) ==
    [kind |-> "FlyingEnemy", name |-> name,
     position |-> PositionComponent_new(x, y),
     health |-> HealthComponent_new(health),
     combat |-> CombatComponent_new(damage),
     flying |-> FlyingComponent_new(Fx(100))]

\* Mutant: the health and damage literals exchanged with a slip.
Player_new_Swapped(name, x, y) ==
    [kind |-> "Player", name |-> name,
     position |-> PositionComponent_new(x, y),
     health |-> HealthComponent_new(25),
     combat |-> CombatComponent_new(100),
     flying |-> None]

Player_new(name, x, y) ==
    [kind |-> "Player", name |-> name,
     position |-> PositionComponent_new(x, y),
     health |-> HealthComponent_new(100),
     combat |-> CombatComponent_new(25),
     flying |-> None]

\* An empty slot: no entity is bound there.
NoEntity == [kind |-> "none"]

\* -------------------------------------------------------- trait Position

get_position_Enemy(e) == <<e.position.x, e.position.y>>

get_position_FlyingEnemy(e) == <<e.position.x, e.position.y>>

get_position_Player(e) == <<e.position.x, e.position.y>>

get_position(e) ==
    CASE e.kind = "Enemy" -> get_position_Enemy(e)
      [] e.kind = "FlyingEnemy" -> get_position_FlyingEnemy(e)
      [] e.kind = "Player" -> get_position_Player(e)

set_position_Enemy(e, x, y) == [e EXCEPT !.position.x = x, !.position.y = y]

set_position_FlyingEnemy(e, x, y) == [e EXCEPT !.position.x = x, !.position.y = y]

set_position_Player(e, x, y) == [e EXCEPT !.position.x = x, !.position.y = y]

set_position(e, x, y) ==
    CASE e.kind = "Enemy" -> set_position_Enemy(e, x, y)
      [] e.kind = "FlyingEnemy" -> set_position_FlyingEnemy(e, x, y)
      [] e.kind = "Player" -> set_position_Player(e, x, y)

\* --------------------------------------------------------- trait Movable

move_by(e, dx, dy) ==
    LET p == get_position(e)
    IN  set_position(e, p[1] + dx, p[2] + dy)

\* ---------------------------------------------------------- trait Health

get_health_Enemy(e) == e.health.current

get_health_FlyingEnemy(e) == e.health.current

get_health_Player(e) == e.health.current

get_health(e) ==
    CASE e.kind = "Enemy" -> get_health_Enemy(e)
      [] e.kind = "FlyingEnemy" -> get_health_FlyingEnemy(e)
      [] e.kind = "Player" -> get_health_Player(e)

\* Mutant: the setter clamps at 0 as well.
set_health_Enemy_Floored(e, health) ==
    [e EXCEPT !.health.current = Max(Min(health, e.health.max), 0)]

set_health_Enemy(e, health) == [e EXCEPT !.health.current = Min(health, e.health.max)]

set_health_FlyingEnemy(e, health) == [e EXCEPT !.health.current = Min(health, e.health.max)]

set_health_Player(e, health) == [e EXCEPT !.health.current = Min(health, e.health.max)]

set_health(e, health) ==
    CASE e.kind = "Enemy" -> set_health_Enemy(e, health)
      [] e.kind = "FlyingEnemy" -> set_health_FlyingEnemy(e, health)
      [] e.kind = "Player" -> set_health_Player(e, health)

\* Mutant: >= for >.
is_alive_NonNegative(e) == get_health(e) >= 0

is_alive(e) == get_health(e) > 0

\* Mutant: the .max(0) is missing.
take_damage_NoFloor(e, damage) ==
    LET new_health == wrapping_sub(get_health(e), damage)
    IN  set_health(e, new_health)

\* The call when the subtraction stays in range or wraps.
take_damage(e, damage) ==
    LET new_health == wrapping_sub(get_health(e), damage)
    IN  set_health(e, Max(new_health, 0))

\* The subtraction of take_damage overflows: a panic where overflow is checked.
take_damage_overflows(e, damage) == sub_overflows(get_health(e), damage)

\* ------------------------------------------------------- trait Combatant

get_attack_damage_Enemy(e) == e.combat.damage

get_attack_damage_FlyingEnemy(e) == e.combat.damage

get_attack_damage_Player(e) == e.combat.damage

get_attack_damage(e) ==
    CASE e.kind = "Enemy" -> get_attack_damage_Enemy(e)
      [] e.kind = "FlyingEnemy" -> get_attack_damage_FlyingEnemy(e)
      [] e.kind = "Player" -> get_attack_damage_Player(e)

\* Mutant: the damage lands on the attacker.
attack_HitsSelf(self, target) == <<take_damage(self, get_attack_damage(self)), target>>

\* attack(&self, target): the pair <<self, target>> after the call.
attack(self, target) == <<self, take_damage(target, get_attack_damage(self))>>

\* ------------------------------------------------- FlyingEnemy, Player

fly_up(e, amount) ==
    [e EXCEPT !.flying.altitude = Min(e.flying.altitude + amount, e.flying.max_altitude)]

\* Mutant: the .max(0.0) is missing.
fly_down_NoFloor(e, amount) ==
    [e EXCEPT !.flying.altitude = e.flying.altitude - amount]

fly_down(e, amount) ==
    [e EXCEPT !.flying.altitude = Max(e.flying.altitude - amount, 0)]

\* Mutant: the argument is ignored for FlyingEnemy's 100.0.
grant_flight_DefaultMax(e, max_altitude) ==
    [e EXCEPT !.flying = Some(FlyingComponent_new(Fx(100)))]

grant_flight(e, max_altitude) ==
    [e EXCEPT !.flying = Some(FlyingComponent_new(max_altitude))]

can_fly(e) == e.flying.some

\* ------------------------------------------------------- trait Updatable

update_Enemy(e, delta_time) == move_by(e, FMul(Fx(10), delta_time), 0)

\* Mutant: < for >, so a unit at or above 50.0 climbs and one below sinks.
update_FlyingEnemy_Inverted(e, delta_time) ==
    LET moved == move_by(e, FMul(Fx(15), delta_time), FMul(Fx(5), delta_time))
    IN  IF moved.flying.altitude < Fx(50)
        THEN fly_down(moved, FMul(Fx(20), delta_time))
        ELSE fly_up(moved, FMul(Fx(20), delta_time))

\* Mutant: >= for >, so a unit at exactly 50.0 descends.
update_FlyingEnemy_AtThreshold(e, delta_time) ==
    LET moved == move_by(e, FMul(Fx(15), delta_time), FMul(Fx(5), delta_time))
    IN  IF moved.flying.altitude >= Fx(50)
        THEN fly_down(moved, FMul(Fx(20), delta_time))
        ELSE fly_up(moved, FMul(Fx(20), delta_time))

update_FlyingEnemy(e, delta_time) ==
    LET moved == move_by(e, FMul(Fx(15), delta_time), FMul(Fx(5), delta_time))
    IN  IF moved.flying.altitude > Fx(50)
        THEN fly_down(moved, FMul(Fx(20), delta_time))
        ELSE fly_up(moved, FMul(Fx(20), delta_time))

\* dyn Entity dispatch (Player does not implement Updatable).
update(e, delta_time) ==
    CASE e.kind = "Enemy" -> update_Enemy(e, delta_time)
      [] e.kind = "FlyingEnemy" -> update_FlyingEnemy(e, delta_time)

\* ---------------------------------------------------------- move_towards

\* Mutant: at distance 0 the entity is still moved, along +x.
move_towards_NoGuard(entity, target_x, target_y, speed) ==
    LET p == get_position(entity)
        dx == target_x - p[1]
        dy == target_y - p[2]
        distance == FSqrt(FMul(dx, dx) + FMul(dy, dy))
    IN  IF distance > 0
        THEN move_by(entity, FMul(FDiv(dx, distance), speed),
                             FMul(FDiv(dy, distance), speed))
        ELSE move_by(entity, speed, 0)

move_towards(entity, target_x, target_y, speed) ==
    LET p == get_position(entity)
        dx == target_x - p[1]
        dy == target_y - p[2]
        distance == FSqrt(FMul(dx, dx) + FMul(dy, dy))
    IN  IF distance > 0
        THEN move_by(entity, FMul(FDiv(dx, distance), speed),
                             FMul(FDiv(dy, distance), speed))
        ELSE entity

\* ------------------------------------------------------------------- inputs

Slots == {1, 2}

Other(i) == 3 - i

\* The slots whose entity receives the calls; the other slot holds its opponent,
\* which takes part in attack as attacker and as target.
Subjects == {1}

\* Arguments of the calls explored in a pc = "api" behaviour.
DamageInputs == {I32_MIN, -10, 0, 15, 40, I32_MAX}

HealthInputs == {-7, 20, 200}

PointInputs == {<<0, 0>>, <<Fx(3), Fx(4)>>}

DeltaInputs == {<<Fx(1), -Fx(2)>>}

SpeedInputs == {0, Fx(5), Fx(10)}

DeltaTimeInputs == {-Fx(1), 0, 1, Fx(3)}

AmountInputs == {-Fx(5), Fx(50), Fx(120)}

MaxAltitudeInputs == {Fx(50), Fx(150)}

ApiEntities ==
    {Enemy_new("e", 0, 0, 30, 15), Enemy_new("e", 0, 0, -5, -10),
     FlyingEnemy_new("f", 0, 0, 30, -10), FlyingEnemy_new("f", 0, 0, -5, 15),
     Player_new("p", 0, 0)}

Op(op, i, a, b, c) == [op |-> op, i |-> i, a |-> a, b |-> b, c |-> c]

\* --------------------------------------------------------------------- Init

\* main is entered: nothing is constructed yet.
InitMain ==
    /\ pc = "main"
    /\ ents = [i \in Slots |-> NoEntity]
    /\ frame = 0
    /\ steps = 0
    /\ last = Op("none", 0, 0, 0, 0)

\* Two entities fresh from their constructors.
InitApi ==
    /\ pc = "api"
    /\ ents \in [Slots -> ApiEntities]
    /\ frame = 0
    /\ steps = 0
    /\ last = Op("new", 0, 0, 0, 0)

Init == InitMain \/ InitApi

\* -------------------------------------------------------- calls (pc = "api")

ApiCall(i, e, op) ==
    /\ ents' = [ents EXCEPT ![i] = e]
    /\ steps' = steps + 1
    /\ last' = op
    /\ UNCHANGED <<pc, frame>>

Panic ==
    /\ pc' = "panicked"
    /\ steps' = steps + 1
    /\ last' = Op("panic", 0, 0, 0, 0)
    /\ UNCHANGED <<ents, frame>>

Callable == pc = "api" /\ steps < MaxSteps

SetPosition(i, x, y) ==
    /\ Callable
    /\ ApiCall(i, set_position(ents[i], x, y), Op("set_position", i, x, y, 0))

MoveBy(i, dx, dy) ==
    /\ Callable
    /\ ApiCall(i, move_by(ents[i], dx, dy), Op("move_by", i, dx, dy, 0))

SetHealth(i, health) ==
    /\ Callable
    /\ ApiCall(i, set_health(ents[i], health), Op("set_health", i, health, 0, 0))

TakeDamage(i, damage) ==
    /\ Callable
    /\ \/ ApiCall(i, take_damage(ents[i], damage), Op("take_damage", i, damage, 0, 0))
       \/ take_damage_overflows(ents[i], damage) /\ Panic

Attack(i, j) ==
    /\ Callable
    /\ i # j
    /\ \/ /\ ents' = [ents EXCEPT ![i] = attack(ents[i], ents[j])[1],
                                  ![j] = attack(ents[i], ents[j])[2]]
          /\ steps' = steps + 1
          /\ last' = Op("attack", j, i, get_attack_damage(ents[i]), 0)
          /\ UNCHANGED <<pc, frame>>
       \/ take_damage_overflows(ents[j], get_attack_damage(ents[i])) /\ Panic

Update(i, delta_time) ==
    /\ Callable
    /\ ents[i].kind \in {"Enemy", "FlyingEnemy"}
    /\ ApiCall(i, update(ents[i], delta_time), Op("update", i, delta_time, 0, 0))

FlyUp(i, amount) ==
    /\ Callable
    /\ ents[i].kind = "FlyingEnemy"
    /\ ApiCall(i, fly_up(ents[i], amount), Op("fly_up", i, amount, 0, 0))

FlyDown(i, amount) ==
    /\ Callable
    /\ ents[i].kind = "FlyingEnemy"
    /\ ApiCall(i, fly_down(ents[i], amount), Op("fly_down", i, amount, 0, 0))

GrantFlight(i, max_altitude) ==
    /\ Callable
    /\ ents[i].kind = "Player"
    /\ ApiCall(i, grant_flight(ents[i], max_altitude), Op("grant_flight", i, max_altitude, 0, 0))

MoveTowards(i, target_x, target_y, speed) ==
    /\ Callable
    /\ ApiCall(i, move_towards(ents[i], target_x, target_y, speed),
               Op("move_towards", i, target_x, target_y, speed))

ApiNext ==
    \/ \E i \in Subjects, p \in PointInputs : SetPosition(i, p[1], p[2])
    \/ \E i \in Subjects, d \in DeltaInputs : MoveBy(i, d[1], d[2])
    \/ \E i \in Subjects, h \in HealthInputs : SetHealth(i, h)
    \/ \E i \in Subjects, d \in DamageInputs : TakeDamage(i, d)
    \/ \E i \in Slots : Attack(i, Other(i))
    \/ \E i \in Subjects, dt \in DeltaTimeInputs : Update(i, dt)
    \/ \E i \in Subjects, a \in AmountInputs : FlyUp(i, a)
    \/ \E i \in Subjects, a \in AmountInputs : FlyDown(i, a)
    \/ \E i \in Subjects, m \in MaxAltitudeInputs : GrantFlight(i, m)
    \/ \E i \in Subjects, p \in PointInputs, s \in SpeedInputs :
          MoveTowards(i, p[1], p[2], s)

\* ------------------------------------------------------------- main's run

Pair(a, b) == [i \in Slots |-> IF i = 1 THEN a ELSE b]

MainStep(at, to, e, f, op) ==
    /\ pc = at
    /\ pc' = to
    /\ ents' = e
    /\ frame' = f
    /\ last' = op
    /\ UNCHANGED steps

\* demonstrate_combat: slot 1 is player, slot 2 is enemy.
DemonstrateCombat_New ==
    MainStep("main", "combat_player_attacks",
             Pair(Player_new("Alice", 0, 0), Enemy_new("Orc", Fx(10), 0, 30, 15)),
             frame, Op("new", 0, 0, 0, 0))

DemonstrateCombat_PlayerAttacks ==
    /\ pc = "combat_player_attacks"
    /\ ~take_damage_overflows(ents[2], get_attack_damage(ents[1]))
    /\ MainStep("combat_player_attacks", "combat_enemy_attacks",
                Pair(attack(ents[1], ents[2])[1], attack(ents[1], ents[2])[2]),
                frame, Op("attack", 2, 1, get_attack_damage(ents[1]), 0))

DemonstrateCombat_EnemyAttacks ==
    /\ pc = "combat_enemy_attacks"
    /\ ~take_damage_overflows(ents[1], get_attack_damage(ents[2]))
    /\ MainStep("combat_enemy_attacks", "loop_new",
                Pair(attack(ents[2], ents[1])[2], attack(ents[2], ents[1])[1]),
                frame, Op("attack", 1, 2, get_attack_damage(ents[2]), 0))

\* simulate_game_loop: the Vec<Box<dyn Entity>> is slots 1 and 2.
SimulateGameLoop_New ==
    MainStep("loop_new", "loop_entity_1",
             Pair(Enemy_new("Goblin", 0, 0, 50, 10),
                  FlyingEnemy_new("Dragon", Fx(100), Fx(50), 150, 30)),
             1, Op("new", 0, 0, 0, 0))

SimulateGameLoop_Update(i) ==
    MainStep(IF i = 1 THEN "loop_entity_1" ELSE "loop_entity_2",
             IF i = 1 THEN "loop_entity_2"
             ELSE IF frame < Frames THEN "loop_entity_1" ELSE "flexibility_new",
             [ents EXCEPT ![i] = update(@, FrameDelta)],
             IF i = 2 /\ frame < Frames THEN frame + 1 ELSE frame,
             Op("update", i, FrameDelta, 0, 0))

\* demonstrate_composition_flexibility: slot 1 is player.
DemonstrateCompositionFlexibility_New ==
    MainStep("flexibility_new", "flexibility_grant",
             Pair(Player_new("Bob", 0, 0), NoEntity),
             0, Op("new", 0, 0, 0, 0))

DemonstrateCompositionFlexibility_Grant ==
    MainStep("flexibility_grant", "flexibility_altitude",
             [ents EXCEPT ![1] = grant_flight(@, Fx(150))],
             frame, Op("grant_flight", 1, Fx(150), 0, 0))

\* if let Some(ref mut flying) = player.flying { flying.altitude = 75.0; }
set_altitude_if_some(e, altitude) ==
    IF e.flying.some THEN [e EXCEPT !.flying.val.altitude = altitude] ELSE e

DemonstrateCompositionFlexibility_Altitude ==
    MainStep("flexibility_altitude", "generic_new",
             [ents EXCEPT ![1] = set_altitude_if_some(@, Fx(75))],
             frame, Op("altitude", 1, Fx(75), 0, 0))

\* demonstrate_generic_functions: slot 1 is enemy, slot 2 is player.
DemonstrateGenericFunctions_New ==
    MainStep("generic_new", "generic_enemy_moves",
             Pair(Enemy_new("Slime", 0, 0, 20, 5),
                  Player_new("Charlie", Fx(100), Fx(100))),
             frame, Op("new", 0, 0, 0, 0))

DemonstrateGenericFunctions_EnemyMoves ==
    LET p == get_position(ents[2])
    IN  MainStep("generic_enemy_moves", "generic_player_moves",
                 [ents EXCEPT ![1] = move_towards(@, p[1], p[2], Fx(25))],
                 frame, Op("move_towards", 1, p[1], p[2], Fx(25)))

DemonstrateGenericFunctions_PlayerMoves ==
    MainStep("generic_player_moves", "done",
             [ents EXCEPT ![2] = move_towards(@, Fx(150), Fx(150), Fx(30))],
             frame, Op("move_towards", 2, Fx(150), Fx(150), Fx(30)))

MainNext ==
    \/ DemonstrateCombat_New
    \/ DemonstrateCombat_PlayerAttacks
    \/ DemonstrateCombat_EnemyAttacks
    \/ SimulateGameLoop_New
    \/ \E i \in Slots : SimulateGameLoop_Update(i)
    \/ DemonstrateCompositionFlexibility_New
    \/ DemonstrateCompositionFlexibility_Grant
    \/ DemonstrateCompositionFlexibility_Altitude
    \/ DemonstrateGenericFunctions_New
    \/ DemonstrateGenericFunctions_EnemyMoves
    \/ DemonstrateGenericFunctions_PlayerMoves

Next == MainNext \/ ApiNext

Spec == Init /\ [][Next]_vars

\* ------------------------------------------------------------------ claims

\* The entity the last call was made on (for attack: its target).
Callee == ents[last.i]

\* The last call was take_damage, made directly or by attack on its target.
AfterTakeDamage == last.op \in {"take_damage", "attack"}

HealthInRange(e) == 0 <= e.health.current /\ e.health.current <= e.health.max

AltitudeInRange(f) == 0 <= f.altitude /\ f.altitude <= f.max_altitude

\* C1 as stated: after every take_damage call, for every construction-time max
\* health, 0 <= current health <= max health.
C1_AsStated == AfterTakeDamage => HealthInRange(Callee)

\* C1: for every entity constructed with max health >= 0, after every
\* take_damage call (any i32 amount, negative and zero included),
\* 0 <= current health <= max health.
C1_HealthInRange ==
    (AfterTakeDamage /\ Callee.health.max >= 0) => HealthInRange(Callee)

\* A negative amount healed an entity and the result was capped at max.
C1_Witness ==
    /\ last.op = "take_damage"
    /\ last.a < 0
    /\ Callee.health.max > 0
    /\ Callee.health.current = Callee.health.max

\* C2 as stated: after every fly_up, fly_down and update of a FlyingEnemy, for
\* any amount and delta_time, 0 <= altitude <= max_altitude.
C2_AsStated ==
    (last.op \in {"fly_up", "fly_down", "update"} /\ Callee.kind = "FlyingEnemy")
        => AltitudeInRange(Callee.flying)

\* C2: a FlyingEnemy is constructed with 0 <= altitude <= max_altitude, and
\* every fly_up, fly_down and update whose amount (delta_time) is >= 0 keeps
\* 0 <= altitude <= max_altitude.
C2_AltitudeInRange ==
    /\ [](last.op = "new" =>
            \A i \in Slots : ents[i].kind = "FlyingEnemy" => AltitudeInRange(ents[i].flying))
    /\ [][(/\ last'.op \in {"fly_up", "fly_down", "update"}
           /\ last'.a >= 0
           /\ ents[last'.i].kind = "FlyingEnemy"
           /\ AltitudeInRange(ents[last'.i].flying))
          => AltitudeInRange(ents'[last'.i].flying)]_vars

\* fly_up with a positive amount was capped at max_altitude.
C2_Witness ==
    /\ last.op = "fly_up"
    /\ last.a > 0
    /\ Callee.flying.altitude = Callee.flying.max_altitude
    /\ steps = 1

\* C3 as stated: after every take_damage call, is_alive() is false if and only
\* if current health is 0.
C3_AsStated ==
    AfterTakeDamage => (~is_alive(Callee) <=> Callee.health.current = 0)

\* C3: for every entity constructed with max health >= 0, after every
\* take_damage call, is_alive() is false if and only if current health is 0.
C3_AliveIffPositive ==
    (AfterTakeDamage /\ Callee.health.max >= 0)
        => (~is_alive(Callee) <=> Callee.health.current = 0)

\* take_damage took an entity of positive max health down to 0: not alive.
C3_Witness ==
    /\ last.op = "take_damage"
    /\ last.a > 0
    /\ Callee.health.max > 0
    /\ Callee.health.current = 0
    /\ ~is_alive(Callee)

C5_CombatDemo ==
    /\ pc = "combat_player_attacks" =>
          /\ get_attack_damage(ents[1]) = 25 /\ get_health(ents[1]) = 100
          /\ get_attack_damage(ents[2]) = 15 /\ get_health(ents[2]) = 30
    /\ pc = "combat_enemy_attacks" =>
          /\ get_health(ents[2]) = 5
          /\ get_health(ents[1]) = 100
    /\ pc = "loop_new" =>
          /\ get_health(ents[1]) = 85
          /\ get_health(ents[2]) = 5

\* Both attacks of demonstrate_combat have been made.
C5_Witness ==
    /\ pc = "loop_new"
    /\ last.op = "attack"
    /\ ents[1].name = "Alice"
    /\ get_health(ents[1]) = 85

\* C6: in simulate_game_loop the flying unit starts at altitude 0.0, is at or
\* below 50.0 before each of its 3 updates (so each ascends), gains 2.0 per
\* frame, and ends at 6.0.
C6_GameLoop ==
    /\ pc \in {"loop_entity_1", "loop_entity_2"} =>
          /\ frame \in 1..Frames
          /\ ents[2].flying.altitude = Fx(2) * (frame - 1)
          /\ ents[2].flying.altitude <= Fx(50)
    /\ pc = "flexibility_new" =>
          /\ frame = Frames
          /\ ents[2].flying.altitude = Fx(6)

\* The three frames are over.
C6_Witness ==
    /\ pc = "flexibility_new"
    /\ ents[2].name = "Dragon"
    /\ ents[2].flying.altitude = Fx(6)

\* C7: move_towards(e, tx, ty, speed) changes nothing of e (nor of the other
\* entity) when e's position is exactly (tx, ty), whatever the speed.
C7_MoveTowardsNoOp ==
    [][(/\ last'.op = "move_towards"
        /\ get_position(ents[last'.i]) = <<last'.a, last'.b>>)
       => ents' = ents]_vars

\* The first call was move_towards with a non-zero speed to (0, 0), where every
\* entity of a call sequence starts.
C7_Witness ==
    /\ pc = "api"
    /\ steps = 1
    /\ last.op = "move_towards"
    /\ last.a = 0 /\ last.b = 0 /\ last.c > 0
    /\ get_position(Callee) = <<0, 0>>

\* C8 as stated: set_health(v) leaves current health at min(v, max), negative
\* when v is negative, and take_damage never leaves it below 0.
C8_AsStated ==
    /\ last.op = "set_health" =>
          /\ Callee.health.current = Min(last.a, Callee.health.max)
          /\ last.a < 0 => Callee.health.current < 0
    /\ AfterTakeDamage => Callee.health.current >= 0

\* C8: set_health(v) leaves current health at min(v, max), negative when v is
\* negative; take_damage never leaves it below 0 on an entity constructed with
\* max health >= 0.
C8_SetHealthAsymmetry ==
    /\ last.op = "set_health" =>
          /\ Callee.health.current = Min(last.a, Callee.health.max)
          /\ last.a < 0 => Callee.health.current < 0
    /\ (AfterTakeDamage /\ Callee.health.max >= 0) => Callee.health.current >= 0

\* set_health with a negative value on an entity of positive max health.
C8_Witness ==
    /\ last.op = "set_health"
    /\ last.a < 0
    /\ Callee.health.max > 0
    /\ Callee.health.current = last.a

\* C9: attacker.attack(target), target distinct, leaves the attacker as it was
\* and changes of the target only the current health, to
\* min(max(current - damage, 0), max) with damage the attacker's attack damage.
C9_AttackFrame ==
    [][last'.op = "attack" =>
        LET attacker == ents[last'.a]
            target == ents[last'.i]
            damage == attacker.combat.damage
        IN  /\ last'.a # last'.i
            /\ last'.b = damage
            /\ ents'[last'.a] = attacker
            /\ ents'[last'.i] =
                 [target EXCEPT !.health.current =
                     Min(Max(wrapping_sub(target.health.current, damage), 0),
                         target.health.max)]]_vars

\* An attack with positive damage lowered the target's health by that damage.
C9_Witness ==
    /\ last.op = "attack"
    /\ last.b > 0
    /\ ents[last.a].combat.damage = last.b
    /\ Callee.health.max > last.b
    /\ Callee.health.current = Callee.health.max - last.b

\* C10: FlyingEnemy::update(dt) moves the position by (15*dt, 5*dt) and makes
\* one altitude adjustment chosen by the altitude before the call: above 50.0
\* it becomes max(altitude - 20*dt, 0), otherwise (50.0 included) it becomes
\* min(altitude + 20*dt, max_altitude); nothing else changes.
C10_FlyingUpdate ==
    [][(last'.op = "update" /\ ents[last'.i].kind = "FlyingEnemy") =>
        LET e == ents[last'.i]
            dt == last'.a
            alt == e.flying.altitude
        IN  /\ ents'[last'.i] =
                 [e EXCEPT !.position.x = @ + FMul(Fx(15), dt),
                           !.position.y = @ + FMul(Fx(5), dt),
                           !.flying.altitude =
                               IF alt > Fx(50)
                               THEN Max(alt - FMul(Fx(20), dt), 0)
                               ELSE Min(alt + FMul(Fx(20), dt), e.flying.max_altitude)]
            /\ ents'[Other(last'.i)] = ents[Other(last'.i)]]_vars

\* update(0.1) on a FlyingEnemy at altitude exactly 50.0 ascended to 52.0.
C10_Witness ==
    /\ last.op = "update"
    /\ Callee.kind = "FlyingEnemy"
    /\ last.a = FrameDelta
    /\ steps = 2
    /\ Callee.flying.altitude = Fx(52)

====
